---- MODULE Spec2Model ----
(***************************************************************************)
(* Model of the write path of src/src/object/writer.rs: the poll-driven    *)
(* ObjectWriter (AsyncWrite over a block-oriented output::Writer).         *)
(*                                                                         *)
(* One session is modelled.  The Block Writer is an external collaborator: *)
(* every poll of an in-flight backend future draws its outcome (Pending,   *)
(* Ok, Err) nondeterministically.  A panic (unreachable!, expect, a poll   *)
(* of a completed async block) is the result of the call that raised it    *)
(* and leaves self.state as it was when it was raised.                     *)
(*                                                                         *)
(* The module also models BlockingObjectWriter (same file) and parse_error *)
(* of src/src/services/oss/error.rs, each under a specification of its own *)
(* (SpecBlocking, SpecErr); the variables of the components a              *)
(* specification does not exercise stay at their initial values.           *)
(***************************************************************************)
EXTENDS Integers, Sequences, FiniteSets, TLC

\* ---- bounds ----
MaxOps == 3          \* write/close operations recorded per session
MaxDrivenOps == 2    \* operations the driving scheduler of SpecFair starts
MaxAsyncOps == 2     \* operations started per session under SpecAsync

\* the buffers a caller passes: empty, two of the same length, a longer one
Buffers == {<<>>, <<0>>, <<1>>, <<1, 0>>}

\* what one poll of the Block Writer's own future can yield
Outcomes == {"Pending", "Ok", "Err"}

VARIABLES
    state,      \* ObjectWriter.state
    backend,    \* what the Block Writer has been asked to do
    ret,        \* what the last call returned
    hist,       \* the write/close operations of the session, one entry per operation
    trans,      \* the values assigned to self.state, in order
    started,    \* the buffer passed to the call that started the latest append
    accepted,   \* the buffers passed to the calls that started a write, in order
    acall,      \* the async method (append / close) whose future is alive, if any
    resp,       \* parse_error: the response handed to it
    perr,       \* parse_error: what it returned
    binner,     \* BlockingObjectWriter.inner: what it has been asked to do
    bret        \* BlockingObjectWriter: what the last call returned

\* the variables of the ObjectWriter session, of parse_error, of the
\* BlockingObjectWriter
wvars == <<state, backend, ret, hist, trans, started, accepted, acall>>
evars == <<resp, perr>>
bvars == <<binner, bret>>

vars == <<state, backend, ret, hist, trans, started, accepted, acall,
          resp, perr, binner, bret>>

\* ---- enum State and the futures it holds ----

\* No future (the Idle variant holds none).
NoFut == [st |-> "None", bs |-> <<>>, size |-> 0, w |-> FALSE]

\* Variant of AppendFut: only the first byte of the buffer goes into the block.
AppendFut_Rechunk(buf) ==
    [st |-> "Unresumed", bs |-> IF Len(buf) > 1 THEN SubSeq(buf, 1, 1) ELSE buf,
     size |-> Len(buf), w |-> TRUE]

\* async move { w.append(bs).await?; Ok((size, w)) }, not yet polled:
\* it owns the writer, the copied block and the captured size.
AppendFut(buf) == [st |-> "Unresumed", bs |-> buf, size |-> Len(buf), w |-> TRUE]

\* async move { w.close().await?; Ok(w) }, not yet polled.
CloseFut == [st |-> "Unresumed", bs |-> <<>>, size |-> 0, w |-> TRUE]

\* State::Idle(Option<Writer>): w is TRUE for Some, FALSE for None.
Idle(w) == [tag |-> "Idle", w |-> w, fut |-> NoFut]
Write(fut) == [tag |-> "Write", w |-> FALSE, fut |-> fut]
Close(fut) == [tag |-> "Close", w |-> FALSE, fut |-> fut]

\* ---- the Block Writer, as seen from its call sites ----

\* w.append(bs) / w.close() is called: the backend operation is issued.
BackendIssue(be, kind, bs) ==
    [be EXCEPT !.blocks = IF kind = "append" THEN Append(@, bs) ELSE @,
               !.log = Append(@, [ev |-> "issue", op |-> kind, ok |-> TRUE]),
               !.inflight = @ + 1]

\* the awaited backend operation completes with Ok (ok) or Err (~ok).
BackendAck(be, kind, ok) ==
    [be EXCEPT !.log = Append(@, [ev |-> "ack", op |-> kind, ok |-> ok]),
               !.inflight = @ - 1]

\* Variant of PollFut: every poll of a future that has not returned calls the
\* Block Writer again, as if the future were rebuilt on each poll.
PollFut_Reissue(fut, kind, be, out) ==
    IF fut.st = "Returned"
    THEN [fut |-> fut, backend |-> be, poll |-> "ResumedAfterCompletion", w |-> FALSE]
    ELSE LET be1 == BackendIssue(be, kind, fut.bs)
         IN CASE out = "Pending" ->
                   [fut |-> [fut EXCEPT !.st = "Suspended"], backend |-> be1,
                    poll |-> "Pending", w |-> FALSE]
              [] out = "Ok" ->
                   [fut |-> [fut EXCEPT !.st = "Returned", !.w = FALSE],
                    backend |-> BackendAck(be1, kind, TRUE), poll |-> "Ok", w |-> fut.w]
              [] out = "Err" ->
                   [fut |-> [fut EXCEPT !.st = "Returned", !.w = FALSE],
                    backend |-> BackendAck(be1, kind, FALSE), poll |-> "Err", w |-> FALSE]

\* fut.poll_unpin(cx) on one of the two async blocks.  The first poll calls
\* the Block Writer; a poll of a block that has returned panics.  On Ok the
\* writer moves out into the output, on Err (`?`) it is dropped with the block.
PollFut(fut, kind, be, out) ==
    IF fut.st = "Returned"
    THEN [fut |-> fut, backend |-> be, poll |-> "ResumedAfterCompletion", w |-> FALSE]
    ELSE LET be1 == IF fut.st = "Unresumed" THEN BackendIssue(be, kind, fut.bs) ELSE be
         IN CASE out = "Pending" ->
                   [fut |-> [fut EXCEPT !.st = "Suspended"], backend |-> be1,
                    poll |-> "Pending", w |-> FALSE]
              [] out = "Ok" ->
                   [fut |-> [fut EXCEPT !.st = "Returned", !.w = FALSE],
                    backend |-> BackendAck(be1, kind, TRUE), poll |-> "Ok", w |-> fut.w]
              [] out = "Err" ->
                   [fut |-> [fut EXCEPT !.st = "Returned", !.w = FALSE],
                    backend |-> BackendAck(be1, kind, FALSE), poll |-> "Err", w |-> FALSE]

\* ---- poll_write ----

\* State::Idle(w) arm: take the writer, copy the buffer, build the future,
\* self.state = State::Write(fut).  The expect has been checked by the caller.
IdleArmWrite(s, tr, buf) ==
    [state |-> Write(AppendFut(buf)), trans |-> Append(tr, "Write")]

\* Variant of WriteArm: a Pending append hands the session back to Idle, so the
\* next poll_write starts another append while this one is still in flight.
WriteArm_PendingIdle(s, be, tr, out) ==
    LET r == PollFut(s.fut, "append", be, out)
    IN CASE r.poll = "Ok" ->
              [state |-> Idle(r.w), backend |-> r.backend, trans |-> Append(tr, "Idle"),
               res |-> "Ok", n |-> s.fut.size]
         [] r.poll = "Err" ->
              [state |-> Write(r.fut), backend |-> r.backend, trans |-> tr,
               res |-> "Err", n |-> 0]
         [] r.poll = "Pending" ->
              [state |-> Idle(TRUE), backend |-> r.backend, trans |-> Append(tr, "Idle"),
               res |-> "Pending", n |-> 0]
         [] OTHER ->
              [state |-> s, backend |-> be, trans |-> tr,
               res |-> r.poll, n |-> 0]

\* Variant of WriteArm: a failed append resets the state to Idle, but the
\* writer was dropped with the future: Idle(None).
WriteArm_ErrIdleNone(s, be, tr, out) ==
    LET r == PollFut(s.fut, "append", be, out)
    IN CASE r.poll = "Ok" ->
              [state |-> Idle(r.w), backend |-> r.backend, trans |-> Append(tr, "Idle"),
               res |-> "Ok", n |-> s.fut.size]
         [] r.poll = "Err" ->
              [state |-> Idle(r.w), backend |-> r.backend, trans |-> Append(tr, "Idle"),
               res |-> "Err", n |-> 0]
         [] r.poll = "Pending" ->
              [state |-> Write(r.fut), backend |-> r.backend, trans |-> tr,
               res |-> "Pending", n |-> 0]
         [] OTHER ->
              [state |-> s, backend |-> be, trans |-> tr,
               res |-> r.poll, n |-> 0]

\* State::Write(fut) arm: poll the future and act on what it yields.
WriteArm(s, be, tr, out) ==
    LET r == PollFut(s.fut, "append", be, out)
    IN CASE r.poll = "Ok" ->
              [state |-> Idle(r.w), backend |-> r.backend, trans |-> Append(tr, "Idle"),
               res |-> "Ok", n |-> s.fut.size]
         [] r.poll = "Err" ->
              [state |-> Write(r.fut), backend |-> r.backend, trans |-> tr,
               res |-> "Err", n |-> 0]
         [] r.poll = "Pending" ->
              [state |-> Write(r.fut), backend |-> r.backend, trans |-> tr,
               res |-> "Pending", n |-> 0]
         [] OTHER ->
              [state |-> s, backend |-> be, trans |-> tr,
               res |-> r.poll, n |-> 0]

\* Variant of poll_write: Ok reports the length of the buffer of the current
\* call instead of the size captured when the append was started.
poll_write_LenNow(s, be, tr, buf, out) ==
    IF s.tag = "Idle" /\ ~s.w
    THEN [state |-> s, backend |-> be, trans |-> tr, res |-> "ExpectFailed", n |-> 0]
    ELSE IF s.tag = "Close"
    THEN [state |-> s, backend |-> be, trans |-> tr, res |-> "Unreachable", n |-> 0]
    ELSE LET a == IF s.tag = "Idle" THEN IdleArmWrite(s, tr, buf)
                  ELSE [state |-> s, trans |-> tr]
             r == WriteArm(a.state, be, a.trans, out)
         IN [r EXCEPT !.n = IF r.res = "Ok" THEN Len(buf) ELSE 0]

\* Variant of poll_write: a call made in State::Close returns an io::Error.
poll_write_CloseErr(s, be, tr, buf, out) ==
    IF s.tag = "Idle" /\ ~s.w
    THEN [state |-> s, backend |-> be, trans |-> tr, res |-> "ExpectFailed", n |-> 0]
    ELSE IF s.tag = "Close"
    THEN [state |-> s, backend |-> be, trans |-> tr, res |-> "Err", n |-> 0]
    ELSE IF s.tag = "Idle"
    THEN LET a == IdleArmWrite(s, tr, buf)
         IN WriteArm(a.state, be, a.trans, out)
    ELSE WriteArm(s, be, tr, out)

\* Variant of poll_write: a call made in State::Close is treated as in Idle
\* and starts an append.
poll_write_CloseAsIdle(s, be, tr, buf, out) ==
    IF s.tag = "Idle" /\ ~s.w
    THEN [state |-> s, backend |-> be, trans |-> tr, res |-> "ExpectFailed", n |-> 0]
    ELSE IF s.tag \in {"Idle", "Close"}
    THEN LET a == IdleArmWrite(s, tr, buf)
         IN WriteArm(a.state, be, a.trans, out)
    ELSE WriteArm(s, be, tr, out)

\* The whole loop of poll_write: at most the Idle arm followed by the Write arm.
poll_write(s, be, tr, buf, out) ==
    IF s.tag = "Idle" /\ ~s.w
    THEN [state |-> s, backend |-> be, trans |-> tr, res |-> "ExpectFailed", n |-> 0]
    ELSE IF s.tag = "Close"
    THEN [state |-> s, backend |-> be, trans |-> tr, res |-> "Unreachable", n |-> 0]
    ELSE IF s.tag = "Idle"
    THEN LET a == IdleArmWrite(s, tr, buf)
         IN WriteArm(a.state, be, a.trans, out)
    ELSE WriteArm(s, be, tr, out)

\* ---- poll_flush ----

\* Variant of poll_flush: outside Idle it reports Pending.
poll_flush_Pending(s) == [state |-> s, res |-> IF s.tag = "Idle" THEN "Ok" ELSE "Pending"]

poll_flush(s) == [state |-> s, res |-> "Ok"]

\* ---- poll_close ----

\* State::Idle(w) arm of poll_close.
IdleArmClose(s, tr) ==
    [state |-> Close(CloseFut), trans |-> Append(tr, "Close")]

\* Variant of CloseArm: a successful close leaves the state in Close.
CloseArm_StaysClose(s, be, tr, out) ==
    LET r == PollFut(s.fut, "close", be, out)
    IN CASE r.poll = "Ok" ->
              [state |-> Close(r.fut), backend |-> r.backend, trans |-> tr, res |-> "Ok"]
         [] r.poll = "Err" ->
              [state |-> Close(r.fut), backend |-> r.backend, trans |-> tr, res |-> "Err"]
         [] r.poll = "Pending" ->
              [state |-> Close(r.fut), backend |-> r.backend, trans |-> tr, res |-> "Pending"]
         [] OTHER ->
              [state |-> s, backend |-> be, trans |-> tr, res |-> r.poll]

\* Variant of CloseArm: whatever the close future yields is reported as
\* Pending and the state is left as it was.
CloseArm_NeverReady(s, be, tr, out) ==
    LET r == PollFut(s.fut, "close", be, "Pending")
    IN IF r.poll = "Pending"
       THEN [state |-> Close(r.fut), backend |-> r.backend, trans |-> tr, res |-> "Pending"]
       ELSE [state |-> s, backend |-> be, trans |-> tr, res |-> r.poll]

\* State::Close(fut) arm of poll_close.
CloseArm(s, be, tr, out) ==
    LET r == PollFut(s.fut, "close", be, out)
    IN CASE r.poll = "Ok" ->
              [state |-> Idle(r.w), backend |-> r.backend, trans |-> Append(tr, "Idle"),
               res |-> "Ok"]
         [] r.poll = "Err" ->
              [state |-> Close(r.fut), backend |-> r.backend, trans |-> tr, res |-> "Err"]
         [] r.poll = "Pending" ->
              [state |-> Close(r.fut), backend |-> r.backend, trans |-> tr, res |-> "Pending"]
         [] OTHER ->
              [state |-> s, backend |-> be, trans |-> tr, res |-> r.poll]

\* Variant of poll_close: a call made in State::Write is treated as in Idle
\* and starts a close.
poll_close_InWrite(s, be, tr, out) ==
    IF s.tag = "Idle" /\ ~s.w
    THEN [state |-> s, backend |-> be, trans |-> tr, res |-> "ExpectFailed"]
    ELSE IF s.tag \in {"Idle", "Write"}
    THEN LET a == IdleArmClose(s, tr)
         IN CloseArm(a.state, be, a.trans, out)
    ELSE CloseArm(s, be, tr, out)

\* The whole loop of poll_close: at most the Idle arm followed by the Close arm.
poll_close(s, be, tr, out) ==
    IF s.tag = "Idle" /\ ~s.w
    THEN [state |-> s, backend |-> be, trans |-> tr, res |-> "ExpectFailed"]
    ELSE IF s.tag = "Write"
    THEN [state |-> s, backend |-> be, trans |-> tr, res |-> "Unreachable"]
    ELSE IF s.tag = "Idle"
    THEN LET a == IdleArmClose(s, tr)
         IN CloseArm(a.state, be, a.trans, out)
    ELSE CloseArm(s, be, tr, out)

\* ---- the session history ----

\* A poll continues the last operation when it is of the same kind and that
\* operation has only returned Pending so far.
Continues(h, op) == Len(h) > 0 /\ h[Len(h)].op = op /\ h[Len(h)].res = "Pending"

Record(h, op, buf, res, n) ==
    IF Continues(h, op)
    THEN [h EXCEPT ![Len(h)].res = res, ![Len(h)].n = n, ![Len(h)].repolled = TRUE]
    ELSE Append(h, [op |-> op, buf |-> buf, res |-> res, n |-> n, repolled |-> FALSE])

\* ---- the state machine ----

\* ObjectWriter::create: state: State::Idle(Some(w)).
WriterInit ==
    /\ state = Idle(TRUE)
    /\ backend = [blocks |-> <<>>, log |-> <<>>, inflight |-> 0]
    /\ ret = [op |-> "none", res |-> "Ok", n |-> 0, buf |-> <<>>]
    /\ hist = <<>>
    /\ trans = <<"Idle">>
    /\ started = <<>>
    /\ accepted = <<>>
    /\ acall = "none"

\* parse_error has not returned
NoErr == [res |-> "none", kind |-> "", temporary |-> FALSE, message |-> <<>>,
          context |-> 0]

\* no response has been handed to parse_error
ErrQuiet ==
    /\ resp = [status |-> 0, body |-> <<>>, readOk |-> TRUE]
    /\ perr = NoErr

\* BlockingObjectWriter::create: inner: w, nothing asked of it yet
BlockingInit ==
    /\ binner = <<>>
    /\ bret = [op |-> "none", res |-> "Ok", n |-> 0, buf |-> <<>>]

Init == WriterInit /\ ErrQuiet /\ BlockingInit

PollWrite ==
    \E buf \in Buffers, out \in Outcomes :
        /\ Continues(hist, "poll_write") \/ Len(hist) < MaxOps
        /\ LET r == poll_write(state, backend, trans, buf, out)
           IN /\ state' = r.state
              /\ backend' = r.backend
              /\ trans' = r.trans
              /\ ret' = [op |-> "poll_write", res |-> r.res, n |-> r.n, buf |-> buf]
              /\ hist' = Record(hist, "poll_write", buf, r.res, r.n)
              /\ started' = IF Len(r.trans) > Len(trans) /\ r.trans[Len(trans) + 1] = "Write"
                            THEN buf ELSE started
              /\ accepted' = IF Len(r.trans) > Len(trans) /\ r.trans[Len(trans) + 1] = "Write"
                             THEN Append(accepted, buf) ELSE accepted
              /\ UNCHANGED <<acall, evars, bvars>>

PollFlush ==
    LET r == poll_flush(state)
    IN /\ state' = r.state
       /\ ret' = [op |-> "poll_flush", res |-> r.res, n |-> 0, buf |-> <<>>]
       /\ UNCHANGED <<backend, hist, trans, started, accepted, acall, evars, bvars>>

PollClose ==
    \E out \in Outcomes :
        /\ Continues(hist, "poll_close") \/ Len(hist) < MaxOps
        /\ LET r == poll_close(state, backend, trans, out)
           IN /\ state' = r.state
              /\ backend' = r.backend
              /\ trans' = r.trans
              /\ ret' = [op |-> "poll_close", res |-> r.res, n |-> 0, buf |-> <<>>]
              /\ hist' = Record(hist, "poll_close", <<>>, r.res, 0)
              /\ started' = started
              /\ UNCHANGED <<accepted, acall, evars, bvars>>

Next == PollWrite \/ PollFlush \/ PollClose

Spec == Init /\ [][Next]_vars

\* ---- a scheduler that drives one operation to completion ----

\* an append (a close) is in flight
WritePending == state.tag = "Write" /\ state.fut.st = "Suspended"
ClosePending == state.tag = "Close" /\ state.fut.st = "Suspended"

\* The cooperative scheduler keeps invoking the pending operation until it
\* reports completion: it does not call close during a pending write, nor
\* write during a pending close.
DrivenWrite ==
    /\ ~ClosePending
    /\ Continues(hist, "poll_write") \/ Len(hist) < MaxDrivenOps
    /\ PollWrite
DrivenClose ==
    /\ ~WritePending
    /\ Continues(hist, "poll_close") \/ Len(hist) < MaxDrivenOps
    /\ PollClose

NextDriven == DrivenWrite \/ PollFlush \/ DrivenClose

\* the poll on which the Block Writer's pending operation completes
CompleteWrite == WritePending /\ PollWrite /\ ret'.res # "Pending"
CompleteClose == ClosePending /\ PollClose /\ ret'.res # "Pending"

\* The scheduler keeps polling and the Block Writer eventually completes.
SpecFair ==
    /\ Init
    /\ [][NextDriven]_vars
    /\ WF_vars(CompleteWrite)
    /\ WF_vars(CompleteClose)

\* ---- the async methods ObjectWriter::append and ObjectWriter::close ----

\* the inner future of a borrowed writer is polled: Pending keeps it in
\* flight, Ok / Err acknowledge it
AwaitBorrowed(s, be, kind, out) ==
    CASE out = "Pending" -> [state |-> s, backend |-> be, res |-> "Pending"]
      [] out = "Ok" -> [state |-> s, backend |-> BackendAck(be, kind, TRUE), res |-> "Ok"]
      [] out = "Err" -> [state |-> s, backend |-> BackendAck(be, kind, FALSE), res |-> "Err"]

\* Variant of async_append: the writer is taken out of Idle for the call and
\* put back only when the append succeeded.
async_append_Takes(s, be, buf, out) ==
    IF s.tag = "Idle" /\ s.w
    THEN LET r == AwaitBorrowed(s, BackendIssue(be, "append", buf), "append", out)
         IN [r EXCEPT !.state = IF r.res = "Ok" THEN Idle(TRUE) ELSE Idle(FALSE)]
    ELSE [state |-> s, backend |-> be, res |-> "Unreachable"]

\* ObjectWriter::append, first poll: borrow the writer of Idle(Some(w)) and
\* await w.append(bs); any other state is unreachable!.
async_append(s, be, buf, out) ==
    IF s.tag = "Idle" /\ s.w
    THEN AwaitBorrowed(s, BackendIssue(be, "append", buf), "append", out)
    ELSE [state |-> s, backend |-> be, res |-> "Unreachable"]

\* ObjectWriter::close, first poll.
async_close(s, be, out) ==
    IF s.tag = "Idle" /\ s.w
    THEN AwaitBorrowed(s, BackendIssue(be, "close", <<>>), "close", out)
    ELSE [state |-> s, backend |-> be, res |-> "Unreachable"]

\* the future of an async method stays alive while it is Pending
Alive(op, res) == IF res = "Pending" THEN op ELSE "none"

AsyncAppend ==
    \E buf \in Buffers, out \in Outcomes :
        /\ acall = "none"
        /\ Len(hist) < MaxAsyncOps
        /\ LET r == async_append(state, backend, buf, out)
           IN /\ state' = r.state
              /\ backend' = r.backend
              /\ ret' = [op |-> "append", res |-> r.res, n |-> 0, buf |-> buf]
              /\ hist' = Append(hist, [op |-> "append", buf |-> buf, res |-> r.res,
                                       n |-> 0, repolled |-> FALSE])
              /\ acall' = Alive("append", r.res)
              /\ UNCHANGED <<trans, started, accepted, evars, bvars>>

AsyncClose ==
    \E out \in Outcomes :
        /\ acall = "none"
        /\ Len(hist) < MaxAsyncOps
        /\ LET r == async_close(state, backend, out)
           IN /\ state' = r.state
              /\ backend' = r.backend
              /\ ret' = [op |-> "close", res |-> r.res, n |-> 0, buf |-> <<>>]
              /\ hist' = Append(hist, [op |-> "close", buf |-> <<>>, res |-> r.res,
                                       n |-> 0, repolled |-> FALSE])
              /\ acall' = Alive("close", r.res)
              /\ UNCHANGED <<trans, started, accepted, evars, bvars>>

\* the executor polls the suspended future of the async method again
AsyncResume ==
    \E out \in Outcomes :
        /\ acall # "none"
        /\ LET r == AwaitBorrowed(state, backend, acall, out)
           IN /\ state' = r.state
              /\ backend' = r.backend
              /\ ret' = [op |-> acall, res |-> r.res, n |-> 0, buf |-> ret.buf]
              /\ hist' = Record(hist, acall, ret.buf, r.res, 0)
              /\ acall' = Alive(acall, r.res)
              /\ UNCHANGED <<trans, started, accepted, evars, bvars>>

\* the caller drops the suspended future: the backend operation is abandoned
AsyncDrop ==
    /\ acall # "none"
    /\ acall' = "none"
    /\ backend' = [backend EXCEPT
                      !.log = Append(@, [ev |-> "cancel", op |-> acall, ok |-> FALSE]),
                      !.inflight = @ - 1]
    /\ ret' = [op |-> "drop", res |-> "Ok", n |-> 0, buf |-> <<>>]
    /\ hist' = [hist EXCEPT ![Len(hist)].res = "Dropped"]
    /\ UNCHANGED <<state, trans, started, accepted, evars, bvars>>

\* while the future of an async method is alive it holds &mut self: the poll
\* methods cannot be called
PollWhileFree ==
    /\ acall = "none"
    /\ \/ Len(hist) < MaxAsyncOps
       \/ Continues(hist, "poll_write")
       \/ Continues(hist, "poll_close")
    /\ Next

NextAsync == PollWhileFree \/ AsyncAppend \/ AsyncClose \/ AsyncResume \/ AsyncDrop

SpecAsync == Init /\ [][NextAsync]_vars

\* ---- services/oss/error.rs: parse_error ----

\* http::StatusCode values of failed responses: the mapped ones, a client
\* error that is not mapped, and the largest valid code
Statuses == {400, 403, 404, 500, 502, 503, 504, 999}

\* A body is a sequence of tokens: the root tags of the error document, one
\* token per complete field element, stray text, and a byte that is not UTF-8.
FieldTokens == {"Code", "Message", "RequestId", "HostId"}

Bodies ==
    { <<"<Error>", "Code", "Message", "RequestId", "HostId", "</Error>">>,
      <<"<Error>", "Code", "</Error>">>,
      <<"<Error>", "</Error>">>,
      <<>>,
      <<"text">>,
      <<"xFF">>,
      <<"text", "xFF">>,
      <<"<Error>", "Code">> }

\* the text of each field element, as in tests::test_parse_error
FieldText(tok) ==
    CASE tok = "Code" -> "AccessDenied"
      [] tok = "Message" -> "Query-string authentication requires the Signature"
      [] tok = "RequestId" -> "1D842BC54255****"
      [] tok = "HostId" -> "oss-cn-hangzhou.aliyuncs.com"

\* de::from_reader::<_, OssError>: a document is a root element holding field
\* elements, each at most once; a field that is absent takes its default
\* (serde(default)); anything else is an Err.
ParseOssError(body) ==
    LET n == Len(body)
        wellFormed ==
            /\ n >= 2
            /\ body[1] = "<Error>"
            /\ body[n] = "</Error>"
            /\ \A i \in 2..(n - 1) : body[i] \in FieldTokens
            /\ \A i, j \in 2..(n - 1) : body[i] = body[j] => i = j
        Field(tok) == IF \E i \in 1..n : body[i] = tok THEN FieldText(tok) ELSE ""
    IN IF wellFormed
       THEN [ok |-> TRUE,
             value |-> [code |-> Field("Code"), message |-> Field("Message"),
                        request_id |-> Field("RequestId"), host_id |-> Field("HostId")]]
       ELSE [ok |-> FALSE,
             value |-> [code |-> "", message |-> "", request_id |-> "", host_id |-> ""]]

\* format!("{:?}", oss_err): the derived Debug of the struct
DebugOssError(v) ==
    <<"OssError", "code", v.code, "message", v.message,
      "request_id", v.request_id, "host_id", v.host_id>>

\* String::from_utf8_lossy(&bs): bytes that are not UTF-8 become U+FFFD
Utf8Lossy(body) ==
    [i \in 1..Len(body) |-> IF body[i] = "xFF" THEN "U+FFFD" ELSE body[i]]

\* Variant of StatusClass: 504 is not in the retryable arm.
StatusClass_No504(status) ==
    CASE status = 404 -> [kind |-> "ObjectNotFound", retryable |-> FALSE]
      [] status = 403 -> [kind |-> "ObjectPermissionDenied", retryable |-> FALSE]
      [] status \in {500, 502, 503} -> [kind |-> "Unexpected", retryable |-> TRUE]
      [] OTHER -> [kind |-> "Unexpected", retryable |-> FALSE]

\* match parts.status { ... } of parse_error
StatusClass(status) ==
    CASE status = 404 -> [kind |-> "ObjectNotFound", retryable |-> FALSE]
      [] status = 403 -> [kind |-> "ObjectPermissionDenied", retryable |-> FALSE]
      [] status \in {500, 502, 503, 504} -> [kind |-> "Unexpected", retryable |-> TRUE]
      [] OTHER -> [kind |-> "Unexpected", retryable |-> FALSE]

\* Variant of parse_error: the error is marked temporary only when the body
\* parsed as well.
parse_error_BodyRetry(r) ==
    IF ~r.readOk
    THEN [NoErr EXCEPT !.res = "Err"]
    ELSE LET c == StatusClass(r.status)
             p == ParseOssError(r.body)
         IN [res |-> "Ok", kind |-> c.kind, temporary |-> c.retryable /\ p.ok,
             message |-> IF p.ok THEN DebugOssError(p.value) ELSE Utf8Lossy(r.body),
             context |-> r.status]

\* Variant of parse_error: a body that does not parse gives an empty message.
parse_error_NoFallback(r) ==
    IF ~r.readOk
    THEN [NoErr EXCEPT !.res = "Err"]
    ELSE LET c == StatusClass(r.status)
             p == ParseOssError(r.body)
         IN [res |-> "Ok", kind |-> c.kind, temporary |-> c.retryable,
             message |-> IF p.ok THEN DebugOssError(p.value) ELSE <<>>,
             context |-> r.status]

\* parse_error: body.bytes().await? returns the read error of a body that
\* cannot be read; otherwise the error is built from the status class and the
\* message, with the response parts as context, and set_temporary when
\* retryable.
parse_error(r) ==
    IF ~r.readOk
    THEN [NoErr EXCEPT !.res = "Err"]
    ELSE LET c == StatusClass(r.status)
             p == ParseOssError(r.body)
             message == IF p.ok THEN DebugOssError(p.value) ELSE Utf8Lossy(r.body)
             err == [res |-> "Ok", kind |-> c.kind, temporary |-> FALSE,
                     message |-> message, context |-> r.status]
         IN IF c.retryable THEN [err EXCEPT !.temporary = TRUE] ELSE err

\* a failed response arrives: any status, any body, readable or not
ErrInit ==
    /\ resp \in [status : Statuses, body : Bodies, readOk : BOOLEAN]
    /\ perr = NoErr

ParseError ==
    /\ perr.res = "none"
    /\ perr' = parse_error(resp)
    /\ UNCHANGED <<resp, wvars, bvars>>

InitErr == WriterInit /\ ErrInit /\ BlockingInit

SpecErr == InitErr /\ [][ParseError]_vars

\* ---- object/writer.rs: BlockingObjectWriter ----

\* calls of the blocking adapter in one run
MaxBlockingCalls == 3

\* self.inner.append(bs) / self.inner.close(): one call of the synchronous
\* Block Writer, which returns ok or an error
InnerCall(inner, op, bs, ok) ==
    [inner |-> Append(inner, [op |-> op, bs |-> bs, ok |-> ok]),
     res |-> IF ok THEN "Ok" ELSE "Err"]

\* BlockingObjectWriter::append
blocking_append(inner, bs, ok) ==
    LET r == InnerCall(inner, "append", bs, ok)
    IN [inner |-> r.inner, res |-> r.res, n |-> 0]

\* BlockingObjectWriter::close
blocking_close(inner, ok) ==
    LET r == InnerCall(inner, "close", <<>>, ok)
    IN [inner |-> r.inner, res |-> r.res, n |-> 0]

\* Variant of io_write: the size is reported whatever append returned.
io_write_OkAlways(inner, buf, ok) ==
    LET size == Len(buf)
        r == blocking_append(inner, buf, ok)
    IN [inner |-> r.inner, res |-> "Ok", n |-> size]

\* <BlockingObjectWriter as io::Write>::write: append of a copy of buf, the
\* Ok mapped to buf.len(), the Err wrapped into an io::Error
io_write(inner, buf, ok) ==
    LET size == Len(buf)
        r == blocking_append(inner, buf, ok)
    IN [inner |-> r.inner, res |-> r.res, n |-> IF r.res = "Ok" THEN size ELSE 0]

\* <BlockingObjectWriter as io::Write>::flush
io_flush(inner) == [inner |-> inner, res |-> "Ok", n |-> 0]

BlockingReturn(op, buf, r) ==
    /\ binner' = r.inner
    /\ bret' = [op |-> op, res |-> r.res, n |-> r.n, buf |-> buf]
    /\ UNCHANGED <<wvars, evars>>

BlockingWrite ==
    /\ Len(binner) < MaxBlockingCalls
    /\ \E buf \in Buffers, ok \in BOOLEAN :
           BlockingReturn("write", buf, io_write(binner, buf, ok))

BlockingAppend ==
    /\ Len(binner) < MaxBlockingCalls
    /\ \E bs \in Buffers, ok \in BOOLEAN :
           BlockingReturn("append", bs, blocking_append(binner, bs, ok))

BlockingClose ==
    /\ Len(binner) < MaxBlockingCalls
    /\ \E ok \in BOOLEAN : BlockingReturn("close", <<>>, blocking_close(binner, ok))

BlockingFlush == BlockingReturn("flush", <<>>, io_flush(binner))

NextBlocking == BlockingWrite \/ BlockingAppend \/ BlockingClose \/ BlockingFlush

SpecBlocking == Init /\ [][NextBlocking]_vars

\* ---- well-formedness ----

TypeOK ==
    /\ state.tag \in {"Idle", "Write", "Close"}
    /\ state.w \in BOOLEAN
    /\ state.fut.st \in {"None", "Unresumed", "Suspended", "Returned"}
    /\ backend.inflight \in Nat
    /\ Len(hist) <= MaxOps


\* ---- properties ----

log == backend.log

\* how many events ev of operation op the log holds in its first j entries
CountEv(j, ev, op) == Cardinality({i \in 1..j : log[i].ev = ev /\ log[i].op = op})

\* how many times tag was assigned to self.state
CountTag(tag) == Cardinality({i \in 2..Len(trans) : trans[i] = tag})

\* the places that own the Block Writer
Owners ==
    (IF state.tag = "Idle" /\ state.w THEN 1 ELSE 0) + (IF state.fut.w THEN 1 ELSE 0)

\* the future held by the state is still in progress
InProgress == state.fut.st \in {"Unresumed", "Suspended"}

\* C1: between calls exactly one of {Idle holds the Block Writer, Write holds
\* an in-progress append, Close holds an in-progress close} is true, and the
\* Block Writer has exactly one owner.
C1_ExactlyOneOwner ==
    /\ \/ state.tag = "Idle" /\ state.w
       \/ state.tag = "Write" /\ InProgress
       \/ state.tag = "Close" /\ InProgress
    /\ Owners = 1

\* C2: when poll_write returns the error of a failed append, the session is
\* back in Idle holding the Block Writer.
C2_FailedWriteReturnsToIdle ==
    (ret.op = "poll_write" /\ ret.res = "Err") => state = Idle(TRUE)

\* C3: whenever an append is issued to the Block Writer, every append issued
\* before it has been acknowledged: appends never overlap and complete in
\* the order they were started.
C3_AppendsInOrder ==
    \A j \in 1..Len(log) :
        (log[j].ev = "issue" /\ log[j].op = "append")
            => CountEv(j - 1, "issue", "append") = CountEv(j - 1, "ack", "append")

\* a second append is in flight after the first was acknowledged
C3_Witness ==
    /\ Len(backend.blocks) = 2
    /\ backend.inflight = 1
    /\ state.tag = "Write"

\* C4: at most one backend operation is in flight, and the Block Writer has
\* been asked for exactly one append per accepted write and one close per
\* accepted close, however often the pending or failed operation is polled.
C4_OneInFlightIssuedOnce ==
    /\ backend.inflight <= 1
    /\ Len(backend.blocks) = CountTag("Write")
    /\ CountEv(Len(log), "issue", "append") = CountTag("Write")
    /\ CountEv(Len(log), "issue", "close") = CountTag("Close")

\* a write was polled again while pending, failed, and was polled once more
C4_Witness ==
    /\ ret.op = "poll_write"
    /\ ret.res = "ResumedAfterCompletion"
    /\ \E i \in 1..Len(hist) :
           hist[i].op = "poll_write" /\ hist[i].repolled /\ hist[i].res = "Err"
    /\ Len(backend.blocks) = 1

\* C5: the Ok(n) of poll_write has n equal to the length of the buffer passed
\* to the call that started the append.
C5_ByteCount ==
    (ret.op = "poll_write" /\ ret.res = "Ok") => ret.n = Len(started)

\* completion is observed by a later poll whose buffer has another length
C5_Witness ==
    /\ ret.op = "poll_write"
    /\ ret.res = "Ok"
    /\ Len(ret.buf) # Len(started)

\* C6: poll_flush returns Ready(Ok) in every state, issues nothing to the
\* Block Writer and changes neither the state nor the history of the session.
C6_FlushNoEffect ==
    [][ret'.op = "poll_flush"
        => /\ ret'.res = "Ok"
           /\ UNCHANGED <<state, backend, hist, trans, started>>]_vars

\* poll_flush was called while an append was pending
C6_Witness ==
    /\ ret.op = "poll_flush"
    /\ state.tag = "Write"
    /\ state.fut.st = "Suspended"

\* the session made exactly write, write, close, each driven to completion,
\* and the Block Writer never failed
ScenarioRan ==
    /\ Len(hist) = 3
    /\ hist[1].op = "poll_write"
    /\ hist[2].op = "poll_write"
    /\ hist[3].op = "poll_close"
    /\ \A i \in 1..3 : hist[i].res # "Pending"
    /\ \A i \in 1..Len(log) : log[i].ok

\* C7: write(b1), write(b2), close() with a succeeding backend return
\* Ok(len b1), Ok(len b2), Ok(()), the state goes Idle, Write, Idle, Write,
\* Idle, Close, Idle, and the session ends Idle holding the Block Writer.
C7_Scenario ==
    ScenarioRan =>
        /\ hist[1].res = "Ok" /\ hist[1].n = Len(hist[1].buf)
        /\ hist[2].res = "Ok" /\ hist[2].n = Len(hist[2].buf)
        /\ hist[3].res = "Ok"
        /\ backend.blocks = <<hist[1].buf, hist[2].buf>>
        /\ trans = <<"Idle", "Write", "Idle", "Write", "Idle", "Close", "Idle">>
        /\ state = Idle(TRUE)

\* the scenario ran with buffers of different lengths, the first write over
\* several polls
C7_Witness ==
    /\ ScenarioRan
    /\ hist[1].repolled
    /\ Len(hist[1].buf) # Len(hist[2].buf)

\* C8: poll_write called in State::Close panics (unreachable!): it returns no
\* io::Error, accepts no bytes and issues nothing to the Block Writer.
C8_WriteWhileClosing ==
    [][(state.tag = "Close" /\ ret'.op = "poll_write")
        => /\ ret'.res = "Unreachable"
           /\ UNCHANGED <<state, backend, trans, started>>]_vars

\* poll_write was called while a close was pending
C8_Witness ==
    /\ ret.op = "poll_write"
    /\ ret.res = "Unreachable"
    /\ state.tag = "Close"
    /\ state.fut.st = "Suspended"

\* C9: poll_close called in State::Write panics (unreachable!): no close is
\* issued to the Block Writer and the pending append is left as it was.
C9_CloseWhileWriting ==
    [][(state.tag = "Write" /\ ret'.op = "poll_close")
        => /\ ret'.res = "Unreachable"
           /\ UNCHANGED <<state, backend, trans, started>>]_vars

\* poll_close was called while an append was pending
C9_Witness ==
    /\ ret.op = "poll_close"
    /\ ret.res = "Unreachable"
    /\ state.tag = "Write"
    /\ state.fut.st = "Suspended"
    /\ backend.inflight = 1

\* C10 as stated: once a close has been issued, no append is issued any more.
C10_NoAppendAfterCloseStarted ==
    \A i, j \in 1..Len(log) :
        (i < j /\ log[i].ev = "issue" /\ log[i].op = "close")
            => ~(log[j].ev = "issue" /\ log[j].op = "append")

\* C10, amended: no append is issued while a close is in flight, and none
\* while the state is Close; an append issued after a close was started is
\* issued only after that close has completed.
C10_NoAppendWhileClosing ==
    /\ \A i, j \in 1..Len(log) :
           (i < j /\ log[i].ev = "issue" /\ log[i].op = "close"
                  /\ log[j].ev = "issue" /\ log[j].op = "append")
               => /\ log[i + 1].ev = "ack" /\ log[i + 1].op = "close"
                  /\ i + 1 < j
    /\ state.tag = "Close" => (Len(log) > 0 /\ log[Len(log)].op = "close")

\* a write was accepted after a close had completed
C10_Witness ==
    /\ \E i \in 1..Len(log) : log[i].ev = "issue" /\ log[i].op = "close"
    /\ log[Len(log)].ev = "issue"
    /\ log[Len(log)].op = "append"
    /\ state.tag = "Write"

\* C15: when poll_close returns the error of a failed close, the session is
\* back in Idle holding the Block Writer.
C15_FailedCloseReturnsToIdle ==
    (ret.op = "poll_close" /\ ret.res = "Err") => state = Idle(TRUE)

\* C16: the blocks the Block Writer received are, in order and one per write,
\* the buffers passed to the calls that started the writes.
C16_BlocksVerbatim == backend.blocks = accepted

\* a pending write was completed by a poll that passed another buffer of the
\* same length, after an earlier write
C16_Witness ==
    /\ ret.op = "poll_write"
    /\ ret.res = "Ok"
    /\ ret.buf # started
    /\ Len(ret.buf) = Len(started)
    /\ Len(backend.blocks) = 2
    /\ backend.blocks[1] = <<1, 0>>

\* C20: a session in Idle holds the Block Writer, and no call has hit the
\* expect on an empty Idle.
C20_IdleHoldsWriter ==
    /\ state.tag = "Idle" => state.w
    /\ ret.res # "ExpectFailed"

\* a call found the session in Idle after a write and a close had completed
C20_Witness ==
    /\ Len(trans) >= 6
    /\ trans[2] = "Write" /\ trans[3] = "Idle"
    /\ trans[4] = "Close" /\ trans[5] = "Idle"
    /\ ret.op = "poll_write"

\* C17: a poll of a pending write (close) during which the backend operation
\* stays in flight returns Pending and leaves state and backend as they were;
\* and when the scheduler keeps polling and the backend completes, the pending
\* write (close) eventually returns Ready.
C17_PendingThenReady ==
    /\ [][(WritePending /\ ret'.op = "poll_write" /\ backend'.inflight = 1)
            => (ret'.res = "Pending" /\ state' = state /\ backend' = backend)]_vars
    /\ [][(ClosePending /\ ret'.op = "poll_close" /\ backend'.inflight = 1)
            => (ret'.res = "Pending" /\ state' = state /\ backend' = backend)]_vars
    /\ WritePending ~> (ret.op = "poll_write" /\ ret.res \in {"Ok", "Err"})
    /\ ClosePending ~> (ret.op = "poll_close" /\ ret.res \in {"Ok", "Err"})

\* a close that was polled while pending has returned Ready
C17_Witness ==
    /\ ret.op = "poll_close"
    /\ ret.res = "Ok"
    /\ hist[Len(hist)].repolled
    /\ \E i \in 1..Len(hist) : hist[i].op = "poll_write" /\ hist[i].repolled /\ hist[i].res = "Ok"

\* C19: the async append / close leave the state untouched when the session
\* is Idle holding the writer, before, during and after the call, whatever
\* the backend answers; called in any other state they panic (unreachable!)
\* and issue nothing to the Block Writer.
C19_AsyncBorrows ==
    /\ [](acall # "none" => state = Idle(TRUE))
    /\ [][ret'.op \in {"append", "close"}
            => /\ state' = state
               /\ state = Idle(TRUE) => ret'.res \in {"Pending", "Ok", "Err"}
               /\ state # Idle(TRUE) => (ret'.res = "Unreachable" /\ backend' = backend)]_vars

\* an async append failed and a later one was forwarded to the Block Writer
C19_Witness ==
    /\ Len(hist) = 2
    /\ hist[1].op = "append" /\ hist[1].res = "Err"
    /\ hist[2].op = "append" /\ hist[2].res = "Ok"
    /\ Len(backend.blocks) = 2
    /\ state = Idle(TRUE)

\* C11: the produced error has the kind and the temporary mark of the fixed
\* table: 404 ObjectNotFound, 403 ObjectPermissionDenied, 500/502/503/504
\* Unexpected and temporary, any other status Unexpected and not temporary.
C11_StatusTable ==
    perr.res = "Ok" =>
        /\ perr.kind = (CASE resp.status = 404 -> "ObjectNotFound"
                          [] resp.status = 403 -> "ObjectPermissionDenied"
                          [] OTHER -> "Unexpected")
        /\ perr.temporary <=> resp.status \in {500, 502, 503, 504}

\* a 504 was translated
C11_Witness ==
    /\ perr.res = "Ok"
    /\ resp.status = 504
    /\ perr.temporary
    /\ perr.kind = "Unexpected"

\* C12: a response with the same status and any other body gives the same
\* kind and the same retryable verdict.
C12_BodyIndependent ==
    perr.res = "Ok" =>
        \A b \in Bodies :
            LET other == parse_error([resp EXCEPT !.body = b])
            IN other.kind = perr.kind /\ other.temporary = perr.temporary

\* a retryable status came with a body that is neither a document nor UTF-8
C12_Witness ==
    /\ perr.res = "Ok"
    /\ resp.status = 503
    /\ resp.body = <<"xFF">>
    /\ perr.temporary

\* C13: parse_error returns a normalized error for every response and never
\* fails itself.
C13_Total == perr.res # "Err"

\* C14: when the body parses as the error document the message is the
\* rendering of the parsed fields (absent fields empty); otherwise it is the
\* lossily decoded raw body.
C14_MessageByParse ==
    perr.res = "Ok" =>
        /\ ParseOssError(resp.body).ok
               => perr.message = DebugOssError(ParseOssError(resp.body).value)
        /\ ~ParseOssError(resp.body).ok => perr.message = Utf8Lossy(resp.body)
        /\ resp.body = <<"<Error>", "Code", "</Error>">>
               => perr.message = <<"OssError", "code", "AccessDenied", "message", "",
                                   "request_id", "", "host_id", "">>
        /\ resp.body = <<"text", "xFF">> => perr.message = <<"text", "U+FFFD">>
        /\ resp.body = <<>> => perr.message = <<>>

\* a truncated document was translated: the message is its raw text
C14_Witness ==
    /\ perr.res = "Ok"
    /\ resp.body = <<"<Error>", "Code">>
    /\ perr.message = <<"<Error>", "Code">>

\* C18: the blocking adapter only forwards. A write makes exactly one append
\* of the bytes of buf and returns Ok(len(buf)) exactly when that append
\* succeeded, otherwise an error and no byte count; append and close make
\* exactly one call each and return its result; flush makes no call; this
\* holds after any earlier failure.
C18_BlockingForwards ==
    [][LET last == binner'[Len(binner')]
           OneCall(op, bs) ==
               /\ Len(binner') = Len(binner) + 1
               /\ binner' = Append(binner, [op |-> op, bs |-> bs, ok |-> last.ok])
       IN /\ bret'.op = "write" =>
                 /\ OneCall("append", bret'.buf)
                 /\ (bret'.res = "Ok" /\ bret'.n = Len(bret'.buf)) <=> last.ok
                 /\ ~last.ok => bret'.res = "Err" /\ bret'.n = 0
          /\ bret'.op = "append" =>
                 /\ OneCall("append", bret'.buf)
                 /\ bret'.res = (IF last.ok THEN "Ok" ELSE "Err")
          /\ bret'.op = "close" =>
                 /\ OneCall("close", <<>>)
                 /\ bret'.res = (IF last.ok THEN "Ok" ELSE "Err")
          /\ bret'.op = "flush" => binner' = binner /\ bret'.res = "Ok"
      ]_vars

\* a write failed, then a write of two bytes and a close were forwarded
C18_Witness ==
    /\ Len(binner) = 3
    /\ binner[1] = [op |-> "append", bs |-> <<1>>, ok |-> FALSE]
    /\ binner[2] = [op |-> "append", bs |-> <<1, 0>>, ok |-> TRUE]
    /\ binner[3].op = "close"
    /\ bret.op = "close"

====
